---- MODULE Spec2Model ----
(***************************************************************************)
(* Model of app.py: the GET /search/ handler search_songs of the YouTube   *)
(* Music search API.  One request is followed from its arrival to its      *)
(* response.  The provider (ytmusicapi.YTMusic) is the environment: its    *)
(* replies to search and get_album are chosen nondeterministically.        *)
(*                                                                         *)
(* Python values are tagged records, so that None, str, list and dict can  *)
(* be told apart the way the interpreter tells them apart.                 *)
(***************************************************************************)
EXTENDS Integers, Sequences, FiniteSets, TLC

\* Largest number of raw results the provider returns to one search.
MaxResults == 2

(***************************************************************************)
(* Python values                                                           *)
(***************************************************************************)
PyNone == [type |-> "NoneType"]

PyStr(s) == [type |-> "str", val |-> s]

PyList(seq) == [type |-> "list", val |-> seq]

PyDict(f) == [type |-> "dict", val |-> f]

EmptyDict == PyDict(<<>>)

NA == PyStr("N/A")

\* dict.get(key, default): the default is used only when the key is absent;
\* a key that is present with the value None yields None.
DictGet(d, key, default) ==
    IF key \in DOMAIN d.val THEN d.val[key] ELSE default

\* Python truthiness, as used by `if artists`, `if album_id`.
Truthy(v) ==
    CASE v.type = "NoneType" -> FALSE
      [] v.type = "str"      -> v.val # ""
      [] v.type = "list"     -> Len(v.val) > 0
      [] v.type = "dict"     -> DOMAIN v.val # {}

\* What an f-string interpolates for a value.
Format(v) == IF v.type = "str" THEN v.val ELSE "None"

(***************************************************************************)
(* Exceptions                                                              *)
(***************************************************************************)
NoExc == [exc |-> "", msg |-> "", line |-> 0]

Exc(kind, msg, line) == [exc |-> kind, msg |-> msg, line |-> line]

\* str(e) of a raised exception: its message.
Str_generic(e) == "Internal Server Error"

Str(e) == e.msg

\* str() of the HTTPException raised at line 37 depends on the installed
\* Starlette: "404: No results found" where __str__ is defined, and the
\* empty string where it is not.
HTTPExceptionStr == {"404: No results found", ""}

\* Errors the provider's search call raises.
SearchErrors ==
    { Exc("ConnectionError", "connection refused", 34),
      Exc("Exception", "Invalid filter provided", 34) }

\* Errors the provider's get_album call raises.
AlbumErrors == { Exc("KeyError", "'album not found'", 63) }

(***************************************************************************)
(* The provider's raw data                                                 *)
(***************************************************************************)
Artist(n) == PyDict("name" :> PyStr(n))

Thumb(u) == PyDict("url" :> PyStr(u))

Album(id, n) == PyDict("id" :> id @@ "name" :> PyStr(n))

\* A well-formed raw result.
Song(v, t, artists, album, thumbs) ==
    PyDict("videoId" :> PyStr(v) @@ "title" :> PyStr(t)
           @@ "duration" :> PyStr("3:05") @@ "artists" :> PyList(artists)
           @@ "album" :> album @@ "thumbnails" :> PyList(thumbs))

\* d with key k set to v / with key k removed.
With(d, k, v) == PyDict((k :> v) @@ d.val)

Without(d, k) == PyDict([x \in (DOMAIN d.val) \ {k} |-> d.val[x]])

SongA == Song("v1", "T1", <<Artist("Ann")>>, Album(PyStr("a1"), "Al1"),
              <<Thumb("s1"), Thumb("s2")>>)

SongB == Song("v2", "T2", <<Artist("Ann"), Artist("Bob")>>,
              Album(PyStr("a2"), "Al2"), <<Thumb("s3")>>)

\* The raw results the provider may return: well-formed ones, and ones in
\* which a field is absent, null, empty or lacks its sub-field.
Songs ==
    { SongA,
      SongB,
      EmptyDict,                                             \* every key absent
      Without(SongB, "videoId"),
      With(SongB, "videoId", PyNone),
      With(SongA, "album", Album(PyNone, "Al3")),            \* album without id
      With(Without(SongB, "album"), "artists", PyList(<<>>)),
      With(Without(SongB, "album"), "artists", PyNone),
      With(SongA, "album", PyNone),
      With(SongA, "thumbnails", PyList(<<>>)),
      With(Without(SongB, "album"), "thumbnails", PyNone),
      With(SongA, "thumbnails", PyList(<<Thumb("s1"), EmptyDict>>)),
      With(Without(SongB, "album"), "artists",
           PyList(<<Artist("Ann"), EmptyDict>>)),
      With(SongB, "title", PyNone) }

\* What get_album may return.
AlbumDetails ==
    { EmptyDict,
      PyDict("thumbnails" :> PyList(<<>>)),
      PyDict("thumbnails" :> PyNone),
      PyDict("thumbnails" :> PyList(<<EmptyDict>>)),
      PyDict("thumbnails" :> PyList(<<Thumb("t1"), Thumb("t2")>>)) }

RECURSIVE SeqsUpTo(_, _)
SeqsUpTo(S, n) ==
    IF n = 0 THEN { <<>> }
    ELSE LET shorter == SeqsUpTo(S, n - 1)
         IN  shorter \cup { Append(q, s) : q \in shorter, s \in S }

\* The result lists the provider may return to a search.
ResultLists == SeqsUpTo(Songs, MaxResults)

Queries == {"love", ""}

FilterTypes == {"songs", "videos"}

Limits == {1, 5}

(***************************************************************************)
(* State                                                                   *)
(***************************************************************************)
VARIABLES
    pc,               \* position of the handler
    request,          \* the query parameters of the request
    calls,            \* provider calls issued so far, in order
    replies,          \* provider replies received so far, in order
    search_results,   \* line 34
    idx,              \* position of the for loop of line 41 (1-based)
    locals,           \* per-item locals of lines 42-66
    enriched_results, \* line 39
    raised,           \* the exception caught at line 91
    response          \* what the caller receives

vars == <<pc, request, calls, replies, search_results, idx, locals,
          enriched_results, raised, response>>

NoRequest == [query |-> "", filter_type |-> "", limit |-> 0]

NoResponse == [status |-> 0, detail |-> "", body |-> <<>>]

NoLocals == [video_id |-> PyNone, artist_names |-> PyList(<<>>),
             album_data |-> EmptyDict, album_id |-> PyNone,
             album_thumbnail_url |-> PyNone]

SearchCall(q, f, l) ==
    [op |-> "search", query |-> q, filter |-> f, limit |-> l]

GetAlbumCall(album_id) == [op |-> "get_album", album_id |-> album_id]

Returned(v) == [kind |-> "return", value |-> v, exc |-> NoExc]

Raised(e) == [kind |-> "raise", value |-> PyNone, exc |-> e]

\* Issuing a call to the provider.
Issue_cached(log, call) ==
    IF \E k \in 1..Len(log) : log[k] = call THEN log ELSE Append(log, call)

Issue(log, call) == Append(log, call)

Init ==
    /\ pc = "idle"
    /\ request = NoRequest
    /\ calls = <<>>
    /\ replies = <<>>
    /\ search_results = <<>>
    /\ idx = 0
    /\ locals = NoLocals
    /\ enriched_results = <<>>
    /\ raised = NoExc
    /\ response = NoResponse

(***************************************************************************)
(* The pieces of the per-item mapping, lines 42-85                         *)
(***************************************************************************)
\* Line 46: artist['name'] raises KeyError for an artist without a name.
ArtistNamesExc(artists) ==
    IF /\ Truthy(artists)
       /\ \E j \in 1..Len(artists.val) : "name" \notin DOMAIN artists.val[j].val
    THEN Exc("KeyError", "'name'", 46)
    ELSE NoExc

ArtistNames(artists) ==
    IF Truthy(artists)
    THEN PyList([j \in 1..Len(artists.val) |-> artists.val[j].val["name"]])
    ELSE PyList(<<NA>>)

\* Line 50: album.get raises AttributeError when album is None.
AlbumExc(album) ==
    IF album.type # "dict"
    THEN Exc("AttributeError", "'NoneType' object has no attribute 'get'", 50)
    ELSE NoExc

\* Line 56.
AlbumUrl(album_id) ==
    IF Truthy(album_id)
    THEN PyStr("https://music.youtube.com/browse/" \o Format(album_id))
    ELSE NA

\* Lines 53-57.
AlbumData(album) ==
    LET album_id == DictGet(album, "id", PyNone)
    IN  [name |-> DictGet(album, "name", NA),
         id   |-> album_id,
         url  |-> AlbumUrl(album_id)]

\* Lines 62-66: the last thumbnail's url; every exception of line 64
\* (IndexError on an empty list, TypeError on None) is swallowed and leaves
\* the None of line 60.
AlbumThumbnail_sentinel(details) ==
    LET thumbs == DictGet(details, "thumbnails", PyList(<<EmptyDict>>))
    IN  IF thumbs.type # "list" THEN NA
        ELSE IF Len(thumbs.val) = 0 THEN NA
        ELSE DictGet(thumbs.val[Len(thumbs.val)], "url", NA)

AlbumThumbnail(details) ==
    LET thumbs == DictGet(details, "thumbnails", PyList(<<EmptyDict>>))
    IN  IF thumbs.type # "list" THEN PyNone
        ELSE IF Len(thumbs.val) = 0 THEN PyNone
        ELSE DictGet(thumbs.val[Len(thumbs.val)], "url", PyNone)

\* Line 69.
YoutubeMusicUrl_always(video_id) ==
    PyStr("https://music.youtube.com/watch?v=" \o Format(video_id))

YoutubeMusicUrl(video_id) ==
    IF video_id # NA
    THEN PyStr("https://music.youtube.com/watch?v=" \o Format(video_id))
    ELSE NA

\* Line 70.
YoutubeVideoUrl(video_id) ==
    IF video_id # NA
    THEN PyStr("https://www.youtube.com/watch?v=" \o Format(video_id))
    ELSE NA

\* Line 73: [-1] raises TypeError on None and IndexError on an empty list.
SongThumbnailExc(song) ==
    LET thumbs == DictGet(song, "thumbnails", PyList(<<EmptyDict>>))
    IN  IF thumbs.type # "list"
        THEN Exc("TypeError", "'NoneType' object is not subscriptable", 73)
        ELSE IF Len(thumbs.val) = 0
        THEN Exc("IndexError", "list index out of range", 73)
        ELSE NoExc

SongThumbnailUrl(song) ==
    LET thumbs == DictGet(song, "thumbnails", PyList(<<EmptyDict>>))
    IN  DictGet(thumbs.val[Len(thumbs.val)], "url", NA)

\* Lines 12-21 and 75-85: pydantic rejects None where the model says str.
ValidationExc(r) ==
    IF /\ r.title.type = "str"
       /\ r.duration.type = "str"
       /\ r.video_id.type = "str"
       /\ \A j \in 1..Len(r.artists.val) : r.artists.val[j].type = "str"
       /\ r.youtube_music_url.type = "str"
       /\ r.youtube_video_url.type = "str"
       /\ r.song_thumbnail_url.type = "str"
       /\ r.album_thumbnail_url.type \in {"str", "NoneType"}
    THEN NoExc
    ELSE Exc("ValidationError", "validation error for SearchResponse", 75)

\* Lines 75-85.
SearchResponse(song, l) ==
    [title               |-> DictGet(song, "title", NA),
     duration            |-> DictGet(song, "duration", NA),
     video_id            |-> l.video_id,
     artists             |-> l.artist_names,
     album               |-> l.album_data,
     youtube_music_url   |-> YoutubeMusicUrl(l.video_id),
     youtube_video_url   |-> YoutubeVideoUrl(l.video_id),
     song_thumbnail_url  |-> SongThumbnailUrl(song),
     album_thumbnail_url |-> l.album_thumbnail_url]

\* Line 87.
AppendResult_front(list, r) == <<r>> \o list

AppendResult(list, r) == Append(list, r)

\* Lines 91-92: every exception becomes a 500 carrying str(e).
TopLevelHandler_partial(e) ==
    [status |-> 200, detail |-> "", body |-> enriched_results]

TopLevelHandler(e) == [status |-> 500, detail |-> Str(e), body |-> <<>>]

Abort(e) ==
    /\ raised' = e
    /\ response' = TopLevelHandler(e)
    /\ pc' = "done"

(***************************************************************************)
(* Actions                                                                 *)
(***************************************************************************)
\* A request arrives and line 34 calls the provider's search.
Request(q, f, l) ==
    /\ pc = "idle"
    /\ request' = [query |-> q, filter_type |-> f, limit |-> l]
    /\ calls' = Issue(calls, SearchCall(q, f, l))
    /\ pc' = "search"
    /\ UNCHANGED <<replies, search_results, idx, locals, enriched_results,
                   raised, response>>

\* Line 34 raises: the handler of lines 91-92 runs.
SearchRaises(e) ==
    /\ pc = "search"
    /\ replies' = Append(replies, Raised(e))
    /\ Abort(e)
    /\ UNCHANGED <<request, calls, search_results, idx, locals,
                   enriched_results>>

\* Line 34 returns.  Lines 36-37 raise HTTPException(404) on an empty
\* result, inside the try block, so that the handler of lines 91-92
\* catches it like any other exception.
SearchReturns ==
    /\ pc = "search"
    /\ \E rs \in ResultLists :
          /\ replies' = Append(replies, Returned(PyList(rs)))
          /\ search_results' = rs
          /\ IF ~Truthy(PyList(rs))
             THEN /\ \E d \in HTTPExceptionStr :
                        Abort(Exc("HTTPException", d, 37))
                  /\ UNCHANGED <<idx, enriched_results>>
             ELSE /\ enriched_results' = <<>>
                  /\ idx' = 1
                  /\ pc' = "loop"
                  /\ UNCHANGED <<raised, response>>
    /\ UNCHANGED <<request, calls, locals>>

\* Lines 41-63: the fields of the next raw result, up to the get_album call.
ExtractItem ==
    /\ pc = "loop"
    /\ idx <= Len(search_results)
    /\ LET song     == search_results[idx]
           video_id == DictGet(song, "videoId", NA)
           artists  == DictGet(song, "artists", PyList(<<>>))
           album    == DictGet(song, "album", EmptyDict)
           exc      == IF ArtistNamesExc(artists) # NoExc
                       THEN ArtistNamesExc(artists)
                       ELSE AlbumExc(album)
       IN  IF exc # NoExc
           THEN /\ Abort(exc)
                /\ UNCHANGED <<calls, locals>>
           ELSE LET album_data == AlbumData(album)
                IN  /\ locals' = [video_id            |-> video_id,
                                  artist_names        |-> ArtistNames(artists),
                                  album_data          |-> album_data,
                                  album_id            |-> album_data.id,
                                  album_thumbnail_url |-> PyNone]
                    /\ IF Truthy(album_data.id)
                       THEN /\ calls' = Issue(calls, GetAlbumCall(album_data.id))
                            /\ pc' = "album"
                       ELSE /\ pc' = "build"
                            /\ UNCHANGED calls
                    /\ UNCHANGED <<raised, response>>
    /\ UNCHANGED <<request, replies, search_results, idx, enriched_results>>

\* Lines 63-64: get_album returns.
GetAlbumReturns(details) ==
    /\ pc = "album"
    /\ replies' = Append(replies, Returned(details))
    /\ locals' = [locals EXCEPT !.album_thumbnail_url = AlbumThumbnail(details)]
    /\ pc' = "build"
    /\ UNCHANGED <<request, calls, search_results, idx, enriched_results,
                   raised, response>>

\* Lines 63, 65-66: get_album raises and the exception is swallowed.
GetAlbumRaises(e) ==
    /\ pc = "album"
    /\ replies' = Append(replies, Raised(e))
    /\ pc' = "build"
    /\ UNCHANGED <<request, calls, search_results, idx, locals,
                   enriched_results, raised, response>>

\* Lines 69-87: the record is built, validated and appended.
BuildItem ==
    /\ pc = "build"
    /\ LET song == search_results[idx]
           exc  == IF SongThumbnailExc(song) # NoExc
                   THEN SongThumbnailExc(song)
                   ELSE ValidationExc(SearchResponse(song, locals))
       IN  IF exc # NoExc
           THEN /\ Abort(exc)
                /\ UNCHANGED <<idx, enriched_results>>
           ELSE /\ enriched_results' =
                       AppendResult(enriched_results, SearchResponse(song, locals))
                /\ idx' = idx + 1
                /\ pc' = "loop"
                /\ UNCHANGED <<raised, response>>
    /\ UNCHANGED <<request, calls, replies, search_results, locals>>

\* Line 89.
ReturnResults ==
    /\ pc = "loop"
    /\ idx > Len(search_results)
    /\ response' = [status |-> 200, detail |-> "", body |-> enriched_results]
    /\ pc' = "done"
    /\ UNCHANGED <<request, calls, replies, search_results, idx, locals,
                   enriched_results, raised>>

Next ==
    \/ \E q \in Queries, f \in FilterTypes, l \in Limits : Request(q, f, l)
    \/ \E e \in SearchErrors : SearchRaises(e)
    \/ SearchReturns
    \/ ExtractItem
    \/ \E details \in AlbumDetails : GetAlbumReturns(details)
    \/ \E e \in AlbumErrors : GetAlbumRaises(e)
    \/ BuildItem
    \/ ReturnResults

Spec == Init /\ [][Next]_vars

(***************************************************************************)
(* Vocabulary of the properties                                            *)
(***************************************************************************)
\* The request has been answered.
Answered == pc = "done"

SearchReturned == Len(replies) >= 1 /\ replies[1].kind = "return"

SearchRaised == Len(replies) >= 1 /\ replies[1].kind = "raise"

\* The raw result carries an album id.
HasAlbumId(song) ==
    /\ "album" \in DOMAIN song.val
    /\ song.val["album"].type = "dict"
    /\ "id" \in DOMAIN song.val["album"].val
    /\ song.val["album"].val["id"].type = "str"

AlbumIdOf(song) == song.val["album"].val["id"]

\* The raw results among the first n that carry an album id.
WithAlbumId(n) == { j \in 1..n : HasAlbumId(search_results[j]) }

\* The provider's reply to the get_album call made for raw result i.
AlbumReplyOf(i) == replies[1 + Cardinality(WithAlbumId(i))]

\* The album-detail lookup did not yield a thumbnail url.
LookupFailed(reply) ==
    \/ reply.kind = "raise"
    \/ /\ reply.kind = "return"
       /\ LET d == reply.value.val
          IN  \/ "thumbnails" \notin DOMAIN d
              \/ d["thumbnails"].type # "list"
              \/ Len(d["thumbnails"].val) = 0
              \/ "url" \notin
                    DOMAIN d["thumbnails"].val[Len(d["thumbnails"].val)].val

RECURSIVE ExpectedAlbumCalls(_)
ExpectedAlbumCalls(songs) ==
    IF songs = <<>> THEN <<>>
    ELSE (IF HasAlbumId(Head(songs))
          THEN <<GetAlbumCall(AlbumIdOf(Head(songs)))>>
          ELSE <<>>) \o ExpectedAlbumCalls(Tail(songs))

(***************************************************************************)
(* Properties                                                              *)
(***************************************************************************)
\* C1: whenever the provider's search returns an empty result set, the
\* caller receives status 404.
C1_EmptyResultIsNotFound ==
    (Answered /\ SearchReturned /\ search_results = <<>>)
        => response.status = 404

\* C2: whenever the provider's search raises, the caller receives status 500
\* whose detail is the description of the raised error, no get_album call is
\* made and no record is returned.
C2_SearchErrorIsInternalFailure ==
    (Answered /\ SearchRaised) =>
        /\ response.status = 500
        /\ response.detail = replies[1].exc.msg
        /\ response.body = <<>>
        /\ enriched_results = <<>>
        /\ Len(calls) = 1
        /\ calls[1].op = "search"

C2_Witness ==
    /\ Answered
    /\ SearchRaised
    /\ replies[1].exc.msg = "connection refused"
    /\ response.detail = "connection refused"

\* C3: for a raw result with an album id whose get_album lookup fails (it
\* raises, the thumbnails list is empty, or the last thumbnail has no url),
\* the record's album_thumbnail_url is None, no exception of the lookup
\* reaches the top-level handler, and the mapping goes on with the same
\* result and with the later ones.
C3_FailedLookupLeavesThumbnailAbsent ==
    /\ \A i \in 1..Len(enriched_results) :
          (HasAlbumId(search_results[i]) /\ LookupFailed(AlbumReplyOf(i)))
              => enriched_results[i].album_thumbnail_url = PyNone
    /\ (pc = "build" /\ HasAlbumId(search_results[idx])
                     /\ LookupFailed(replies[Len(replies)]))
          => /\ locals.album_thumbnail_url = PyNone
             /\ response = NoResponse
             /\ raised = NoExc
    /\ raised.line \notin {63, 64}

C3_Witness ==
    \E i \in 1..Len(enriched_results) :
        /\ i < Len(enriched_results)
        /\ HasAlbumId(search_results[i])
        /\ AlbumReplyOf(i).kind = "raise"
        /\ enriched_results[i].album_thumbnail_url = PyNone

\* C4: after a non-empty search, a missing or malformed field of a raw
\* result never makes the request fail: every raw result yields a record.
C4_MalformedFieldNeverAborts ==
    (Answered /\ SearchReturned /\ Len(search_results) > 0)
        => /\ response.status = 200
           /\ Len(response.body) = Len(search_results)

\* C5: the record's song_thumbnail_url is the url of the last element of the
\* raw result's thumbnails list when the list is non-empty, and "N/A" when
\* the list is empty or the field is absent.
C5_SongThumbnailIsLastOrSentinel ==
    /\ \A i \in 1..Len(enriched_results) :
          LET song == search_results[i].val
              url  == enriched_results[i].song_thumbnail_url
          IN  IF "thumbnails" \notin DOMAIN song
              THEN url = NA
              ELSE LET thumbs == song["thumbnails"].val
                   IN  "url" \in DOMAIN thumbs[Len(thumbs)].val
                          => url = thumbs[Len(thumbs)].val["url"]
    /\ \A i \in 1..Len(search_results) :
          (/\ "thumbnails" \in DOMAIN search_results[i].val
           /\ search_results[i].val["thumbnails"] = PyList(<<>>)
           /\ Answered
           /\ i <= idx)
              => /\ i <= Len(enriched_results)
                 /\ enriched_results[i].song_thumbnail_url = NA

C8_CallsAreSearchThenOneLookupPerAlbumId ==
    /\ response.status = 200 =>
          calls = <<SearchCall(request.query, request.filter_type,
                               request.limit)>>
                  \o ExpectedAlbumCalls(search_results)
    /\ Len(calls) - Len(replies) = (IF pc \in {"search", "album"} THEN 1 ELSE 0)

C8_Witness ==
    /\ response.status = 200
    /\ Len(search_results) = 2
    /\ HasAlbumId(search_results[1])
    /\ HasAlbumId(search_results[2])
    /\ AlbumIdOf(search_results[1]) = AlbumIdOf(search_results[2])
    /\ Len(calls) = 3
    /\ calls[2] = calls[3]

\* C9: when the response is returned, whatever its kind, a get_album lookup
\* has been made and has ended for every raw result with an album id.
C9_EveryLookupEndsBeforeResponse ==
    Answered =>
        /\ Len(replies) = Len(calls)
        /\ Len(calls) = 1 + Cardinality(WithAlbumId(Len(search_results)))

\* C10: an exception raised while a raw result is processed ends the
\* request with status 500, the error's description and no record; status
\* 200 is returned only when every raw result has been mapped.
C10_AllOrNothing ==
    /\ (Answered /\ raised.line > 37) =>
          /\ response.status = 500
          /\ response.detail = raised.msg
          /\ response.body = <<>>
    /\ response.status = 200 =>
          /\ raised = NoExc
          /\ Len(response.body) = Len(search_results)

C10_Witness ==
    /\ Answered
    /\ raised.line > 37
    /\ Len(enriched_results) >= 1
    /\ response.status = 500
    /\ response.body = <<>>

====
